---- MODULE Spec2Model ----
(***************************************************************************)
(* EARL: a population of policy heads on a shared trunk and value net      *)
(* (earl/model.py, EvoACModel) driven by the generation loop of            *)
(* earl/runner.py (EvoACRunner).                                           *)
(*                                                                         *)
(* Python lists are modelled as sequences: the Python index i of a list is *)
(* position i + 1 of the sequence.  Population indices and action indices  *)
(* that the program returns or stores (pop_idx, best_pop, action) keep     *)
(* their Python value, 0 .. n-1.                                           *)
(*                                                                         *)
(* Three specifications share the variables:                               *)
(*   Spec       EvoACRunner.train, the generation loop of every run;       *)
(*   SpecModel  the public operations of EvoACModel called in any order;   *)
(*   SpecTest   EvoACRunner._test_algorithm, step by step.                 *)
(***************************************************************************)
EXTENDS Integers, Sequences, FiniteSets, TLC

\* ---------------------------------------------------------------- bounds
\* largest population size (config 'pop_size') drawn
MaxPop == 2
\* number of discrete actions of the environment (action_space.n)
NumActions == 2
\* calls made on the model in SpecModel
MaxCalls == 3
\* longest episode: the environment reports done at this step at the latest
MaxEpSteps == 2
\* generations of one run; stands for the loop bound range(10000) of
\* runner.py 46, scaled down
GenCeiling == 2
\* evaluation episodes of one _test_algorithm call; stands for the loop bound
\* range(100) of runner.py 147, scaled down
TestEpisodes == 2

\* ---------------------------------------------------------------- tensors
\* A tensor is its shape and its elements in row-major order.
Tensor(shape, data) == [shape |-> shape, data |-> data]

\* `None`, as the value of a .grad that no backward pass has written
NoneT == [shape |-> <<>>, data |-> <<>>]

Numel(t) == Len(t.data)

\* torch.zeros_like / a tensor filled with one value
Full(shape, n, v) == Tensor(shape, [j \in 1..n |-> v])

\* elementwise sum, as .grad accumulation does
AddT(a, b) == Tensor(a.shape, [j \in 1..Len(a.data) |-> a.data[j] + b.data[j]])

\* ------------------------------------------------------------ layer specs
\* net_config['policy'] is a list of {type, params, kwargs}; the layer kinds
\* used by the configurations are Linear(in, out) and ReLU().
Linear(in, out) == [type |-> "Linear", in |-> in, out |-> out]

ReLU == [type |-> "ReLU", in |-> 0, out |-> 0]

\* head architectures drawn as configuration: the trunk output has one
\* feature and the head ends in one logit per action
Architectures ==
    { << Linear(1, NumActions) >>,
      << Linear(1, 1), ReLU, Linear(1, NumActions) >> }

\* layer.named_parameters(): Linear has weight [out, in] then bias [out],
\* ReLU has none.  Each is given as <<shape, number of elements>>.
ParamShapes(layer) ==
    IF layer.type = "Linear"
    THEN << << <<layer.out, layer.in>>, layer.out * layer.in >>,
            << <<layer.out>>, layer.out >> >>
    ELSE << >>

\* getattr(nn, type)(*params): one instantiated layer, as the list of its
\* parameter tensors.  Initial values are random in the program; a seed s
\* stands for one draw: weight all ones, bias <<s, 0, ...>>.
_add_layer(layer, s) ==
    [q \in 1..Len(ParamShapes(layer)) |->
        LET sh == ParamShapes(layer)[q]
        IN  IF q = 1 THEN Full(sh[1], sh[2], 1)
            ELSE Tensor(sh[1], [j \in 1..sh[2] |-> IF j = 1 THEN s ELSE 0])]

\* nn.ModuleList of the layers of layer_config, in order
_add_layers(layer_config, s) ==
    [l \in 1..Len(layer_config) |-> _add_layer(layer_config[l], s)]

\* seeds of the random initial draws
Seeds == {-1, 0, 1}


\* -------------------------------------------------------------- variables
VARIABLES
    config,        \* the experiment configuration (read, never written)
    policy_nets,   \* EvoACModel.policy_nets[i][layer][parameter]: a tensor
    policy_grads,  \* the .grad of each parameter of policy_nets, or NoneT
    shared_net,    \* EvoACModel.shared_net, its parameter value
    value_net,     \* EvoACModel.value_net, its parameter value
    opt_grads,     \* the .grad of shared_net and value_net (set, g)
    ret,           \* SpecModel: what the last call returned or raised
    arg,           \* SpecModel: the bundle given to the last insert_params
    lastOp,        \* SpecModel: the last operation called
    lastTouched,   \* SpecModel: the individuals in the last backward pass
    calls,         \* SpecModel: number of calls made
    fitnesses,     \* storage.fitnesses, one entry per individual
    tpc,           \* _test_algorithm: where the evaluation stands
    test_obs,      \* _test_algorithm: obs
    test_ep,       \* _test_algorithm: episodes finished
    ep_steps,      \* _test_algorithm: steps of the running episode
    ep_fitness,    \* _test_algorithm: fitness of the running episode
    test_log,      \* _test_algorithm: its local list fitnesses
    test_return,   \* _test_algorithm: <<sum, count>> of the mean it returns
    obs_arg,       \* the obs given to the last _get_test_action
    queried,       \* pop_idx of each get_action call of the last _get_test_action
    actions,       \* what each of those calls returned
    action,        \* what the last _get_test_action returned
    consulted,     \* every pop_idx queried since the evaluation began
    pc,            \* train: the statement to run next
    run_idx,       \* train: run_idx of the outer loop
    gen_idx,       \* train: self.gen_idx
    loop_pop_idx,  \* train: pop_idx of the episode loop (runner.py 48)
    timesteps,     \* self.timesteps
    last_log,      \* self.last_log
    stop_fit,      \* self.stop_fit: <<value>>, or << >> when never assigned
    test_fit,      \* train: test_fit, << >> when not assigned
    new_pop,       \* self.new_pop
    evo,           \* what the evolutionary collaborator was handed
    logger,        \* calls made on the logger
    raised,        \* the exception that ended train, or "none"
    installed,     \* generation whose new_pop the heads hold, -1: initial
    staged,        \* generation that produced self.new_pop, -1: none
    met,           \* evaluations of this run with test_fit >= stop_fit
    exit_reason,   \* why the generation loop of this run was left
    ids,           \* the parameter objects: which object each parameter is,
                   \* and the objects the optimizer was constructed with
    envs,          \* self.env and self.test_env: episodes begun, and steps
                   \* into the running episode (0 when none is running)
    steps,         \* the calls _update_evo_ac has made in this generation
    earned,        \* per individual: training episodes since reset_storage,
                   \* the head that played the last one and its fitness
    eval_heads     \* the heads the last evaluation of this run ran on

modelVars == <<policy_nets, policy_grads, shared_net, value_net, opt_grads>>

apiVars == <<ret, arg, lastOp, lastTouched, calls>>

storageVars == <<fitnesses>>

testVars == <<tpc, test_obs, test_ep, ep_steps, ep_fitness, test_log, test_return,
              obs_arg, queried, actions, action, consulted>>

trainVars == <<pc, run_idx, gen_idx, loop_pop_idx, timesteps, last_log, stop_fit, test_fit,
               new_pop, evo, logger, raised, installed, staged, met, exit_reason>>

objVars == <<ids, envs>>

histVars == <<steps, earned, eval_heads>>

vars == <<config, modelVars, apiVars, storageVars, testVars, trainVars, objVars,
          histVars>>

\* ------------------------------------------------------- parameter bundles
\* One entry of a bundle.  parameter.detach() and parameter.grad.detach()
\* return tensors that share the storage of the live parameter (kind "param")
\* or of its gradient (kind "grad"); a tensor of its own is kind "val".
ParamRef(i, l, q) == [kind |-> "param", ind |-> i, layer |-> l, pos |-> q, t |-> NoneT]

GradRef(i, l, q) == [kind |-> "grad", ind |-> i, layer |-> l, pos |-> q, t |-> NoneT]

Val(t) == [kind |-> "val", ind |-> 0, layer |-> 0, pos |-> 0, t |-> t]

\* the tensor an entry holds, read now
Deref(e, nets, grads) ==
    CASE e.kind = "param" -> nets[e.ind][e.layer][e.pos]
      [] e.kind = "grad"  -> grads[e.ind][e.layer][e.pos]
      [] OTHER            -> e.t

\* concatenation of a list of lists
RECURSIVE Flatten(_)
Flatten(ss) == IF ss = << >> THEN << >> ELSE Head(ss) \o Flatten(Tail(ss))

\* mutant of extract_params: the individuals are walked in reverse order
extract_params_reversed(nets) ==
    [i \in 1..Len(nets) |->
        Flatten([l \in 1..Len(nets[i]) |->
                    [q \in 1..Len(nets[i][l]) |-> ParamRef(Len(nets) + 1 - i, l, q)]])]

\* model.py 57-71: for every individual, one flat list over its layers and
\* their named parameters of parameter.detach()
extract_params(nets) ==
    [i \in 1..Len(nets) |->
        Flatten([l \in 1..Len(nets[i]) |->
                    [q \in 1..Len(nets[i][l]) |-> ParamRef(i, l, q)]])]

\* model.py 93-107: the same walk over parameter.grad.detach(); a .grad that
\* is None has no attribute detach
extract_grads(nets, grads) ==
    IF \E i \in 1..Len(nets) : \E l \in 1..Len(nets[i]) :
          \E q \in 1..Len(nets[i][l]) : grads[i][l][q] = NoneT
    THEN [err |-> "AttributeError", val |-> << >>]
    ELSE [err |-> "none",
          val |-> [i \in 1..Len(nets) |->
                    Flatten([l \in 1..Len(nets[i]) |->
                        [q \in 1..Len(nets[i][l]) |-> GradRef(i, l, q)]])]]

\* model.py 90, layer.load_state_dict(state_dict): parameter by parameter,
\* copy the entry into the live parameter when the shapes agree; a shape
\* that differs is reported after the other parameters were copied
RECURSIVE load_state_dict(_, _, _, _, _, _, _)
load_state_dict(nets, grads, i, l, q, state_dict, bad) ==
    IF q > Len(nets[i][l])
    THEN [nets |-> nets, err |-> IF bad THEN "RuntimeError" ELSE "none"]
    ELSE LET src == Deref(state_dict[q], nets, grads)
         IN  IF src.shape = nets[i][l][q].shape
             THEN load_state_dict([nets EXCEPT ![i][l][q] = src],
                                  grads, i, l, q + 1, state_dict, bad)
             ELSE load_state_dict(nets, grads, i, l, q + 1, state_dict, TRUE)

\* model.py 85-90: the layers of one individual; params_idx counts the
\* entries of incoming_params[pop_idx] consumed so far.  Indexing past the
\* end of a list raises IndexError before the layer is loaded.
RECURSIVE InsertLayers(_, _, _, _, _, _)
InsertLayers(nets, grads, incoming_params, i, l, params_idx) ==
    IF l > Len(nets[i])
    THEN [nets |-> nets, err |-> "none"]
    ELSE LET n == Len(nets[i][l])
         IN  IF n > 0 /\ (i > Len(incoming_params)
                          \/ params_idx + n > Len(incoming_params[i]))
             THEN [nets |-> nets, err |-> "IndexError"]
             ELSE LET state_dict ==
                          IF n = 0 THEN << >>
                          ELSE SubSeq(incoming_params[i], params_idx + 1, params_idx + n)
                      r == load_state_dict(nets, grads, i, l, 1, state_dict, FALSE)
                  IN  IF r.err # "none" THEN r
                      ELSE InsertLayers(r.nets, grads, incoming_params, i, l + 1,
                                        params_idx + n)

\* model.py 82-84: the individuals, in population order
RECURSIVE InsertFrom(_, _, _, _)
InsertFrom(nets, grads, incoming_params, i) ==
    IF i > Len(nets)
    THEN [nets |-> nets, err |-> "none"]
    ELSE LET r == InsertLayers(nets, grads, incoming_params, i, 1, 0)
         IN  IF r.err # "none" THEN r
             ELSE InsertFrom(r.nets, grads, incoming_params, i + 1)

\* model.py 74-90
insert_params(nets, grads, incoming_params) ==
    InsertFrom(nets, grads, incoming_params, 1)

\* ------------------------------------------------------------ inference
Max(a, b) == IF a >= b THEN a ELSE b

RECURSIVE DotRow(_, _, _, _)
\* sum over j = 1..n of weight[row, j] * x[j], weight stored row-major
DotRow(w, x, row, n) ==
    IF n = 0 THEN 0
    ELSE w.data[(row - 1) * Len(x) + n] * x[n] + DotRow(w, x, row, n - 1)

\* layer(x) for one instantiated layer
ApplyLayer(params, x) ==
    IF Len(params) = 0
    THEN [j \in 1..Len(x) |-> Max(0, x[j])]
    ELSE [a \in 1..Numel(params[2]) |->
            DotRow(params[1], x, a, Len(x)) + params[2].data[a]]

RECURSIVE ApplyLayers(_, _, _)
ApplyLayers(block, x, l) ==
    IF l > Len(block) THEN x
    ELSE ApplyLayers(block, ApplyLayer(block[l], x), l + 1)

\* model.py 110-140, forward(x, pop_idx): the trunk, then the policy head of
\* pop_idx and the value net, both from the trunk's output.  pop_idx is the
\* Python index.
forward(nets, shared, value, x, pop_idx) ==
    LET trunk == << shared * x >>
    IN  [policy |-> ApplyLayers(nets[pop_idx + 1], trunk, 1),
         value  |-> value * trunk[1]]

\* model.py 161-163: Categorical(softmax(policy)).sample().  exp is positive
\* for every finite logit, so every action has positive probability and the
\* sample can be any of them.
SampleSet(policy) == {a \in 0..(Len(policy) - 1) : TRUE}

\* model.py 143-165, get_action(state, pop_idx): the actions it can return
get_action(nets, shared, value, state, pop_idx) ==
    SampleSet(forward(nets, shared, value, state, pop_idx).policy)

\* the most likely action of pop_idx's own distribution: the largest logit
\* (softmax is monotone), the lowest index among equals
MostLikely(nets, shared, value, state, pop_idx) ==
    LET policy == forward(nets, shared, value, state, pop_idx).policy
    IN  CHOOSE a \in 0..(Len(policy) - 1) :
            /\ \A b \in 0..(Len(policy) - 1) : policy[b + 1] <= policy[a + 1]
            /\ \A b \in 0..(a - 1) : policy[b + 1] < policy[a + 1]

\* ------------------------------------------------------------- gradients
\* loss.backward() (runner.py 109) on a loss built from the forward passes
\* of the individuals in touched: autograd accumulates into the .grad of
\* every parameter on the graph, creating it when it is None.  g stands for
\* the gradient value of this pass.
BackwardHeads(nets, grads, touched, g) ==
    [i \in 1..Len(nets) |->
        IF i \notin touched THEN grads[i]
        ELSE [l \in 1..Len(nets[i]) |->
                [q \in 1..Len(nets[i][l]) |->
                    LET d == Full(nets[i][l][q].shape, Numel(nets[i][l][q]), g)
                    IN  IF grads[i][l][q] = NoneT THEN d
                        ELSE AddT(grads[i][l][q], d)]]]

BackwardTrunk(og, g) ==
    IF og.set THEN [set |-> TRUE, shared |-> og.shared + g, value |-> og.value + g]
    ELSE [set |-> TRUE, shared |-> g, value |-> g]

\* model.py 26 and runner.py 107: the optimizer is built from
\* self.parameters(), the parameters of the registered submodules shared_net
\* and value_net (ModuleList); policy_nets is a plain Python list, so its
\* parameters are not among them.  zero_grad() zeroes the .grad of the
\* optimizer's parameters and leaves every other .grad alone.
zero_grad(og) == IF og.set THEN [set |-> TRUE, shared |-> 0, value |-> 0] ELSE og

Sgn(x) == IF x > 0 THEN 1 ELSE IF x < 0 THEN -1 ELSE 0

\* runner.py 112, opt.step(): Adam moves each of its parameters that has a
\* .grad against the sign of the gradient
opt_step(p, og, g) == IF og.set THEN p - Sgn(g) ELSE p

\* mutant of Registered: the heads are held in a ModuleList as well
Registered_withHeads == {"shared_net", "policy_nets", "value_net"}

\* model.py 34-37: an attribute that holds a Module (the nn.ModuleList that
\* _add_layers returns) is registered as a submodule; policy_nets is a Python
\* list of ModuleLists, and assigning a list registers nothing.
\* self.parameters() (model.py 26) walks the registered submodules only.
Registered == {"shared_net", "value_net"}

\* opt.zero_grad() on the heads: their .grad is touched only when they are
\* parameters of the optimizer
zero_grad_heads(grads) ==
    IF "policy_nets" \notin Registered THEN grads
    ELSE [i \in 1..Len(grads) |-> [l \in 1..Len(grads[i]) |->
            [q \in 1..Len(grads[i][l]) |->
                IF grads[i][l][q] = NoneT THEN NoneT
                ELSE Full(grads[i][l][q].shape, Numel(grads[i][l][q]), 0)]]]

\* opt.step() on the heads, likewise
opt_step_heads(nets, grads) ==
    IF "policy_nets" \notin Registered THEN nets
    ELSE [i \in 1..Len(nets) |-> [l \in 1..Len(nets[i]) |->
            [q \in 1..Len(nets[i][l]) |->
                IF grads[i][l][q] = NoneT THEN nets[i][l][q]
                ELSE Tensor(nets[i][l][q].shape,
                            [j \in 1..Numel(nets[i][l][q]) |->
                                nets[i][l][q].data[j] - Sgn(grads[i][l][q].data[j])])]]]

\* ------------------------------------------------------ parameter objects
\* the model has not been constructed
NoIds == [heads |-> << >>, shared |-> 0, value |-> 0, opt |-> {}]

\* model.py 25-26: the parameter objects that _init_model_layers creates for
\* the model of run r, each a new object, and the ones the optimizer is
\* constructed with
ConstructIds(nets, r) ==
    LET heads == [i \in 1..Len(nets) |-> [l \in 1..Len(nets[i]) |->
                    [q \in 1..Len(nets[i][l]) |-> 1000 * r + 100 * i + 10 * l + q]]]
        shared == 1000 * r + 1
        value == 1000 * r + 2
    IN  [heads |-> heads, shared |-> shared, value |-> value,
         opt |-> (IF "shared_net" \in Registered THEN {shared} ELSE {})
                   \cup (IF "value_net" \in Registered THEN {value} ELSE {})
                   \cup (IF "policy_nets" \in Registered
                         THEN UNION {UNION {{heads[i][l][q] : q \in 1..Len(heads[i][l])} :
                                            l \in 1..Len(heads[i])} :
                                     i \in 1..Len(heads)}
                         ELSE {})]

\* mutant of Loaded: a new Parameter object is bound in place of the old one
Loaded_rebound(id) == id + 5000

\* model.py 90, load_state_dict: the entry is copied into the parameter the
\* layer already has (param.copy_(input_param)); the object stays the same
Loaded(id) == id

\* model.py 82-90: the parameter objects of the heads after insert_params
insert_params_ids(heads) ==
    [i \in 1..Len(heads) |-> [l \in 1..Len(heads[i]) |->
        [q \in 1..Len(heads[i][l]) |-> Loaded(heads[i][l][q])]]]

\* ----------------------------------------------------------- environments
\* runner.py 31-32: gym.make twice, no episode begun on either
NoEnvs == [env |-> [episodes |-> 0, t |-> 0], test_env |-> [episodes |-> 0, t |-> 0]]

\* mutant of EvalEnv: the evaluation plays on the training environment
EvalEnv_training == "env"

\* runner.py 149 and 152: the evaluation resets and steps self.test_env
EvalEnv == "test_env"

\* env.reset()
EnvReset(e) == [episodes |-> e.episodes + 1, t |-> 0]

\* env.step(action): one more step of the running episode, which ends when
\* the environment reports done
EnvStep(e, done) == [e EXCEPT !.t = IF done THEN 0 ELSE @ + 1]

\* ------------------------------------------------- construction of a model
\* one random draw per individual: all alike, or differing by index
SeedPatterns(P) ==
    {[i \in 1..P |-> s] : s \in Seeds} \cup {[i \in 1..P |-> (i % 3) - 1]}

\* model.py 29-37, _init_model_layers: pop_size heads of the same policy
\* architecture, each with its own parameters
_init_model_layers(pop_size, policy, sv) ==
    [i \in 1..pop_size |-> _add_layers(policy, sv[i])]

\* no backward pass has run: every .grad is None
NoGrads(nets) ==
    [i \in 1..Len(nets) |-> [l \in 1..Len(nets[i]) |->
        [q \in 1..Len(nets[i][l]) |-> NoneT]]]

NoOptGrads == [set |-> FALSE, shared |-> 0, value |-> 0]

Config(P, policy, env, strat, interval, budget, runs) ==
    [pop_size |-> P, policy |-> policy, env |-> env, test_strat |-> strat,
     log_interval |-> interval, print_interval |-> 2, timesteps |-> budget,
     num_runs |-> runs]

\* model.py 19-26, EvoACModel.__init__
ModelInit(sv) ==
    /\ policy_nets = _init_model_layers(config.pop_size, config.policy, sv)
    /\ policy_grads = NoGrads(policy_nets)
    /\ shared_net = 1
    /\ value_net = 1
    /\ opt_grads = NoOptGrads
    /\ ids = ConstructIds(policy_nets, 0)

\* ----------------------------------------- SpecModel: the model's operations
NoRet == [err |-> "none", val |-> << >>]

\* a bundle of tensors of its own with the layout of the heads
SeedBundle(policy, sv) ==
    [i \in 1..Len(sv) |->
        Flatten([l \in 1..Len(policy) |->
            [q \in 1..Len(ParamShapes(policy[l])) |->
                Val(_add_layer(policy[l], sv[i])[q])]])]

Reverse(s) == [j \in 1..Len(s) |-> s[Len(s) + 1 - j]]

\* bundles a caller can hand to insert_params: well formed ones (tensors of
\* their own, or what extract_params returned, in order or rotated by one
\* individual) and ones whose layout differs from the heads'
WellFormedBundles(nets, policy) ==
    LET P == Len(nets)
        e == extract_params(nets)
    IN  {SeedBundle(policy, sv) : sv \in SeedPatterns(P)}
          \cup {e, [i \in 1..P |-> e[(i % P) + 1]]}

MalformedBundles(nets, policy) ==
    LET P == Len(nets)
        v == SeedBundle(policy, [i \in 1..P |-> -1])
    IN  { Append(v, v[1]),
          SubSeq(v, 1, P - 1),
          [v EXCEPT ![1] = Append(@, @[1])],
          [v EXCEPT ![P] = SubSeq(@, 1, Len(@) - 1)],
          [v EXCEPT ![1] = Reverse(@)] }

\* the evaluation is not running
TestIdle ==
    /\ tpc = "idle"
    /\ test_obs = 0
    /\ test_ep = 0
    /\ ep_steps = 0
    /\ ep_fitness = 0
    /\ test_log = << >>
    /\ test_return = << >>
    /\ obs_arg = 0
    /\ queried = << >>
    /\ actions = << >>
    /\ action = -1
    /\ consulted = {}

\* runner.py 44
LastLogInit == -9999999

NoEvo == [params |-> << >>, grads |-> << >>, fitnesses |-> << >>,
          grads_gen |-> -1, fitnesses_gen |-> -1]

NoLogger == [saves |-> 0, prints |-> 0, end_runs |-> 0, end_experiments |-> 0]

\* train is not running
TrainIdle ==
    /\ pc = "idle"
    /\ run_idx = 0
    /\ gen_idx = 0
    /\ loop_pop_idx = 0
    /\ timesteps = 0
    /\ last_log = LastLogInit
    /\ stop_fit = << >>
    /\ test_fit = << >>
    /\ new_pop = << >>
    /\ evo = NoEvo
    /\ logger = NoLogger
    /\ raised = "none"
    /\ installed = -1
    /\ staged = -1
    /\ met = 0
    /\ exit_reason = "none"
    /\ steps = << >>
    /\ earned = << >>
    /\ eval_heads = << >>

InitModel ==
    /\ fitnesses = << >>
    /\ TestIdle
    /\ TrainIdle
    /\ envs = NoEnvs
    /\ \E P \in 1..MaxPop, policy \in Architectures :
          config = Config(P, policy, "CartPole-v1", "best", 1, 1, 1)
    /\ \E sv \in SeedPatterns(config.pop_size) : ModelInit(sv)
    /\ ret = NoRet
    /\ arg = << >>
    /\ lastOp = "init"
    /\ lastTouched = {}
    /\ calls = 0

Called(op) ==
    /\ calls < MaxCalls
    /\ calls' = calls + 1
    /\ lastOp' = op
    /\ UNCHANGED <<config, storageVars, testVars, trainVars, envs, histVars>>

ApiExtractParams ==
    /\ Called("extract_params")
    /\ ret' = [err |-> "none", val |-> extract_params(policy_nets)]
    /\ UNCHANGED <<modelVars, arg, lastTouched, ids>>

ApiInsertParams ==
    /\ Called("insert_params")
    /\ \E b \in WellFormedBundles(policy_nets, config.policy)
                  \cup MalformedBundles(policy_nets, config.policy) :
          LET r == insert_params(policy_nets, policy_grads, b)
          IN  /\ policy_nets' = r.nets
              /\ ret' = [err |-> r.err, val |-> << >>]
              /\ arg' = b
    /\ ids' = [ids EXCEPT !.heads = insert_params_ids(@)]
    /\ UNCHANGED <<policy_grads, shared_net, value_net, opt_grads, lastTouched>>

\* insert_params(extract_params()) as one call
ApiRoundTrip ==
    /\ Called("round_trip")
    /\ LET b == extract_params(policy_nets)
           r == insert_params(policy_nets, policy_grads, b)
       IN  /\ policy_nets' = r.nets
           /\ ret' = [err |-> r.err, val |-> << >>]
           /\ arg' = b
    /\ ids' = [ids EXCEPT !.heads = insert_params_ids(@)]
    /\ UNCHANGED <<policy_grads, shared_net, value_net, opt_grads, lastTouched>>

\* a forward pass through the heads in touched, then loss.backward()
ApiBackward ==
    /\ Called("backward")
    /\ \E touched \in (SUBSET (1..config.pop_size)) \ {{}} :
          /\ policy_grads' = BackwardHeads(policy_nets, policy_grads, touched, 1)
          /\ lastTouched' = touched
    /\ opt_grads' = BackwardTrunk(opt_grads, 1)
    /\ ret' = NoRet
    /\ UNCHANGED <<policy_nets, shared_net, value_net, arg, ids>>

ApiZeroGrad ==
    /\ Called("zero_grad")
    /\ opt_grads' = zero_grad(opt_grads)
    /\ policy_grads' = zero_grad_heads(policy_grads)
    /\ ret' = NoRet
    /\ UNCHANGED <<policy_nets, shared_net, value_net, arg, lastTouched, ids>>

ApiOptStep ==
    /\ Called("opt_step")
    /\ shared_net' = opt_step(shared_net, opt_grads, opt_grads.shared)
    /\ value_net' = opt_step(value_net, opt_grads, opt_grads.value)
    /\ policy_nets' = opt_step_heads(policy_nets, policy_grads)
    /\ ret' = NoRet
    /\ UNCHANGED <<policy_grads, opt_grads, arg, lastTouched, ids>>

ApiExtractGrads ==
    /\ Called("extract_grads")
    /\ ret' = extract_grads(policy_nets, policy_grads)
    /\ UNCHANGED <<modelVars, arg, lastTouched, ids>>

NextModel ==
    \/ ApiExtractParams
    \/ ApiInsertParams
    \/ ApiRoundTrip
    \/ ApiBackward
    \/ ApiZeroGrad
    \/ ApiOptStep
    \/ ApiExtractGrads

SpecModel == InitModel /\ [][NextModel]_vars

\* ------------------------------------------ the ensemble of the evaluation
\* mutant of argmax: the last of equal largest elements wins
RECURSIVE ArgMaxLastFrom(_, _, _)
ArgMaxLastFrom(xs, k, best) ==
    IF k > Len(xs) THEN best - 1
    ELSE ArgMaxLastFrom(xs, k + 1, IF xs[k] >= xs[best] THEN k ELSE best)

argmax_last(xs) == ArgMaxLastFrom(xs, 2, 1)

\* mutant of argmax: the smallest element is taken
RECURSIVE ArgMinFrom(_, _, _)
ArgMinFrom(xs, k, best) ==
    IF k > Len(xs) THEN best - 1
    ELSE ArgMinFrom(xs, k + 1, IF xs[k] < xs[best] THEN k ELSE best)

argmin(xs) == ArgMinFrom(xs, 2, 1)

RECURSIVE ArgMaxFrom(_, _, _)
ArgMaxFrom(xs, k, best) ==
    IF k > Len(xs) THEN best - 1
    ELSE ArgMaxFrom(xs, k + 1, IF xs[k] > xs[best] THEN k ELSE best)

\* np.argmax (runner.py 172, 185): the Python index of the first largest
\* element
argmax(xs) == ArgMaxFrom(xs, 2, 1)

\* runner.py 183-184: for mod_action, weight in zip(actions, fitnesses):
\* action_votes[mod_action] += weight.  zip stops at the shorter list.
RECURSIVE AccumulateVotes(_, _, _, _)
AccumulateVotes(action_votes, acts, weights, k) ==
    IF k > Len(acts) \/ k > Len(weights) THEN action_votes
    ELSE AccumulateVotes([action_votes EXCEPT ![acts[k] + 1] = @ + weights[k]],
                         acts, weights, k + 1)

\* one outcome of _get_test_action: what it returned or raised, and the
\* get_action calls it made
Outcome(err, a, pops, acts) ==
    [err |-> err, action |-> a, queried |-> pops, actions |-> acts]

KnownStrats == {"best", "softmax", "weightedvote"}

\* runner.py 159-186, _get_test_action(obs): every outcome the random draws
\* of get_action and np.random.choice allow.  softmax(fitnesses) is positive
\* everywhere, so np.random.choice can pick any individual.  With a
\* test_strat that matches no branch, `action` is never bound and
\* `return action` raises UnboundLocalError.
_get_test_action(strat, fits, nets, shared, value, obs, pop_size, n_actions) ==
    IF strat = "best"
    THEN LET best_pop == argmax(fits)
         IN  {Outcome("none", a, <<best_pop>>, <<a>>) :
                 a \in get_action(nets, shared, value, obs, best_pop)}
    ELSE IF strat = "softmax"
    THEN UNION {{Outcome("none", a, <<pop_idx>>, <<a>>) :
                    a \in get_action(nets, shared, value, obs, pop_idx)} :
                pop_idx \in 0..(pop_size - 1)}
    ELSE IF strat = "weightedvote"
    THEN {Outcome("none",
                  argmax(AccumulateVotes([a \in 1..n_actions |-> 0], acts, fits, 1)),
                  [i \in 1..pop_size |-> i - 1], acts) :
             acts \in {f \in [1..pop_size -> 0..(n_actions - 1)] :
                          \A i \in 1..pop_size :
                              f[i] \in get_action(nets, shared, value, obs, i - 1)}}
    ELSE {Outcome("UnboundLocalError", -1, << >>, << >>)}

\* ------------------------------------------- SpecTest: _test_algorithm
\* fitness values the storage can hold after a generation's episodes
FitnessVals == {-1, 2}

\* the fitness vectors of the two end-to-end scenarios, population size 3
ScenarioFitnesses == {<<1, 2, 5>>, <<3, 9, 1>>}

\* pop_size and storage.fitnesses at the start of an evaluation
TestInputs ==
    {<<P, f>> : P \in 1..MaxPop, f \in UNION {[1..Q -> FitnessVals] : Q \in 1..MaxPop}}
      \cup {<<3, f>> : f \in ScenarioFitnesses}

\* observations of the environment, and its reward for one step (CartPole
\* pays 1 for every step)
Observations == {1}

Rewards == {1}

RECURSIVE SumSeq(_)
SumSeq(xs) == IF xs = << >> THEN 0 ELSE Head(xs) + SumSeq(Tail(xs))

\* the random initial draws of a run: all heads alike, or differing by index
TrainSeedPatterns(P) == {[i \in 1..P |-> 0], [i \in 1..P |-> (i % 3) - 1]}

\* runner.py 144-147: the evaluation starts with an empty list of fitnesses
InitTest ==
    /\ \E in \in TestInputs, strat \in KnownStrats \cup {"majority"} :
          /\ Len(in[2]) = in[1]
          /\ config = Config(in[1], << Linear(1, NumActions) >>, "LunarLander-v2",
                             strat, 1, 1, 1)
          /\ fitnesses = in[2]
    /\ \E sv \in TrainSeedPatterns(config.pop_size) : ModelInit(sv)
    /\ TrainIdle
    /\ envs = NoEnvs
    /\ ret = NoRet
    /\ arg = << >>
    /\ lastOp = "init"
    /\ lastTouched = {}
    /\ calls = 0
    /\ tpc = "reset"
    /\ test_obs = 0
    /\ test_ep = 0
    /\ ep_steps = 0
    /\ ep_fitness = 0
    /\ test_log = << >>
    /\ test_return = << >>
    /\ obs_arg = 0
    /\ queried = << >>
    /\ actions = << >>
    /\ action = -1
    /\ consulted = {}

\* runner.py 148-149
TestReset ==
    /\ tpc = "reset"
    /\ test_obs' \in Observations
    /\ ep_fitness' = 0
    /\ ep_steps' = 0
    /\ tpc' = "step"
    /\ envs' = [envs EXCEPT ![EvalEnv] = EnvReset(@)]
    /\ UNCHANGED <<test_ep, test_log, test_return, obs_arg, queried, actions, action,
                   consulted>>
    /\ UNCHANGED <<config, modelVars, apiVars, storageVars, trainVars, ids, histVars>>

\* runner.py 151-156: one pass of the while loop
TestStep ==
    /\ tpc = "step"
    /\ \E o \in _get_test_action(config.test_strat, fitnesses, policy_nets, shared_net,
                                 value_net, test_obs, config.pop_size, NumActions) :
          /\ obs_arg' = test_obs
          /\ queried' = o.queried
          /\ actions' = o.actions
          /\ action' = o.action
          /\ consulted' = consulted \cup {o.queried[k] : k \in 1..Len(o.queried)}
          /\ IF o.err # "none"
             THEN /\ tpc' = "failed"
                  /\ UNCHANGED <<test_obs, ep_steps, ep_fitness, test_ep, test_log, envs>>
             ELSE \E obs \in Observations, rewards \in Rewards, done \in BOOLEAN :
                    /\ (ep_steps + 1 >= MaxEpSteps) => done
                    /\ envs' = [envs EXCEPT ![EvalEnv] = EnvStep(@, done)]
                    /\ test_obs' = obs
                    /\ ep_steps' = ep_steps + 1
                    /\ ep_fitness' = ep_fitness + rewards
                    /\ IF done
                       THEN /\ test_log' = Append(test_log, ep_fitness + rewards)
                            /\ test_ep' = test_ep + 1
                            /\ tpc' = IF test_ep + 1 = TestEpisodes THEN "return" ELSE "reset"
                       ELSE UNCHANGED <<test_log, test_ep, tpc>>
    /\ UNCHANGED test_return
    /\ UNCHANGED <<config, modelVars, apiVars, storageVars, trainVars, ids, histVars>>

\* runner.py 157: return np.mean(fitnesses)
TestReturn ==
    /\ tpc = "return"
    /\ test_return' = <<SumSeq(test_log), Len(test_log)>>
    /\ tpc' = "done"
    /\ UNCHANGED <<test_obs, test_ep, ep_steps, ep_fitness, test_log,
                   obs_arg, queried, actions, action, consulted>>
    /\ UNCHANGED <<config, modelVars, apiVars, storageVars, trainVars, objVars, histVars>>

NextTest ==
    \/ TestReset
    \/ TestStep
    \/ TestReturn

SpecTest == InitTest /\ [][NextTest]_vars

\* ------------------------------------------------ Spec: EvoACRunner.train
\* configurations drawn: environments with and without a stop threshold,
\* the three test strategies and an identifier that is none of them
Envs == {"CartPole-v1", "LunarLander-v2", "Acrobot-v1"}

Strats == KnownStrats \cup {"majority"}

LogIntervals == {1, 3}

Budgets == {3, 100}

\* the configurations train is run on: every population size, log interval
\* and budget with one run of strategy best on CartPole-v1; every
\* environment; every strategy; and two runs for each budget
TrainConfigs ==
    LET policy == << Linear(1, NumActions) >>
    IN  {Config(P, policy, "CartPole-v1", "best", interval, budget, 1) :
            P \in 1..MaxPop, interval \in LogIntervals, budget \in Budgets}
          \cup {Config(P, policy, env, "best", 1, 3, 1) : P \in 1..MaxPop, env \in Envs}
          \cup {Config(P, policy, "CartPole-v1", strat, 1, 3, 1) :
                    P \in 1..MaxPop, strat \in Strats}
          \cup {Config(1, policy, "CartPole-v1", "best", 1, budget, 2) :
                    budget \in Budgets}

\* mean test fitnesses an evaluation can return: below both thresholds, and
\* each threshold exactly
TestFitVals == {0, 200, 475}

\* runner.py 24-27: stop_fit is assigned for two environments only
StopFitOf(env) ==
    IF env = "CartPole-v1" THEN <<475>>
    ELSE IF env = "LunarLander-v2" THEN <<200>>
    ELSE << >>

\* runner.py 18-33: the runner as constructed, train() about to start
Init ==
    /\ config \in TrainConfigs
    /\ policy_nets = << >>
    /\ policy_grads = << >>
    /\ shared_net = 0
    /\ value_net = 0
    /\ opt_grads = NoOptGrads
    /\ fitnesses = << >>
    /\ ret = NoRet
    /\ arg = << >>
    /\ lastOp = "init"
    /\ lastTouched = {}
    /\ calls = 0
    /\ TestIdle
    /\ pc = "run_start"
    /\ run_idx = 0
    /\ gen_idx = 0
    /\ loop_pop_idx = 0
    /\ timesteps = 0
    /\ last_log = LastLogInit
    /\ stop_fit = StopFitOf(config.env)
    /\ test_fit = << >>
    /\ new_pop = << >>
    /\ evo = NoEvo
    /\ logger = NoLogger
    /\ raised = "none"
    /\ installed = -1
    /\ staged = -1
    /\ met = 0
    /\ exit_reason = "none"
    /\ ids = NoIds
    /\ envs = NoEnvs
    /\ steps = << >>
    /\ earned = << >>
    /\ eval_heads = << >>

\* storage.reset_storage() / EvoACStorage(num_pop, ...): no fitness recorded
ZeroFitnesses(P) == [i \in 1..P |-> 0]

\* no individual has played since the storage was reset
NoEarned(P) == [i \in 1..P |-> [n |-> 0, head |-> << >>, fitness |-> 0]]

\* runner.py 40-44 and 119-134: the next run begins with _reset_experiment
StartRun ==
    /\ pc = "run_start"
    /\ run_idx < config.num_runs
    /\ fitnesses' = ZeroFitnesses(config.pop_size)
    /\ \E sv \in TrainSeedPatterns(config.pop_size) :
          policy_nets' = _init_model_layers(config.pop_size, config.policy, sv)
    /\ policy_grads' = NoGrads(policy_nets')
    /\ shared_net' = 1
    /\ value_net' = 1
    /\ opt_grads' = NoOptGrads
    /\ ids' = ConstructIds(policy_nets', run_idx)
    /\ evo' = [NoEvo EXCEPT !.params = extract_params(policy_nets')]
    /\ steps' = << >>
    /\ earned' = NoEarned(config.pop_size)
    /\ eval_heads' = << >>
    /\ timesteps' = 0
    /\ last_log' = LastLogInit
    /\ gen_idx' = 0
    /\ test_fit' = << >>
    /\ installed' = -1
    /\ staged' = -1
    /\ met' = 0
    /\ exit_reason' = "none"
    /\ pc' = "gen_start"
    /\ UNCHANGED <<config, apiVars, testVars, run_idx, loop_pop_idx, stop_fit, new_pop,
                   logger, raised, envs>>

\* runner.py 73: after the last run
EndExperiment ==
    /\ pc = "run_start"
    /\ run_idx = config.num_runs
    /\ logger' = [logger EXCEPT !.end_experiments = @ + 1]
    /\ pc' = "done"
    /\ UNCHANGED <<config, modelVars, apiVars, storageVars, testVars, run_idx, gen_idx,
                   loop_pop_idx, timesteps, last_log, stop_fit, test_fit, new_pop, evo,
                   raised, installed, staged, met, exit_reason, objVars, histVars>>

\* mutant of StartGeneration: the storage is not reset
StartGeneration_noReset ==
    /\ pc = "gen_start"
    /\ gen_idx < GenCeiling
    /\ loop_pop_idx' = 0
    /\ test_fit' = << >>
    /\ steps' = << >>
    /\ pc' = "episodes"
    /\ UNCHANGED <<config, modelVars, apiVars, storageVars, testVars, run_idx, gen_idx,
                   timesteps, last_log, stop_fit, new_pop, evo, logger, raised, installed,
                   staged, met, exit_reason, objVars, earned, eval_heads>>

\* runner.py 46-47: one more generation
StartGeneration ==
    /\ pc = "gen_start"
    /\ gen_idx < GenCeiling
    /\ fitnesses' = ZeroFitnesses(config.pop_size)
    /\ loop_pop_idx' = 0
    /\ test_fit' = << >>
    /\ steps' = << >>
    /\ earned' = NoEarned(config.pop_size)
    /\ pc' = "episodes"
    /\ UNCHANGED <<config, modelVars, apiVars, testVars, run_idx, gen_idx, timesteps,
                   last_log, stop_fit, new_pop, evo, logger, raised, installed, staged,
                   met, exit_reason, objVars, eval_heads>>

\* runner.py 46: the range is exhausted
CeilingReached ==
    /\ pc = "gen_start"
    /\ gen_idx = GenCeiling
    /\ exit_reason' = "ceiling"
    /\ pc' = "end_run"
    /\ UNCHANGED <<config, modelVars, apiVars, storageVars, testVars, run_idx, gen_idx,
                   loop_pop_idx, timesteps, last_log, stop_fit, test_fit, new_pop, evo,
                   logger, raised, installed, staged, met, objVars, histVars>>

\* mutant of UpdateOrder: the optimizer steps before the gradients are
\* extracted
UpdateOrder_stepFirst ==
    <<"zero_grad", "get_loss", "backward", "opt_step", "set_grads", "set_fitnesses",
      "create_new_pop">>

\* runner.py 107-117: the statements of _update_evo_ac, in program order
\* (extract_grads is the argument of set_grads, line 110)
UpdateOrder ==
    <<"zero_grad", "get_loss", "backward", "set_grads", "opt_step", "set_fitnesses",
      "create_new_pop">>

\* the statement that runs after stmt; line 53 follows the last one
Following(stmt) ==
    LET k == CHOOSE j \in 1..Len(UpdateOrder) : UpdateOrder[j] = stmt
    IN  IF k = Len(UpdateOrder) THEN "check" ELSE UpdateOrder[k + 1]

\* runner.py 48-49 and 75-99, _run_episode(pop_idx): self.env is reset and
\* the head of pop_idx plays n steps until the environment reports done,
\* each counted in timesteps and paid its reward; the fitness is recorded
\* under pop_idx
RunEpisode ==
    /\ pc = "episodes"
    /\ loop_pop_idx < config.pop_size
    /\ \E n \in 1..MaxEpSteps, reward \in Rewards :
          /\ timesteps' = timesteps + n
          /\ fitnesses' = [fitnesses EXCEPT ![loop_pop_idx + 1] = n * reward]
          /\ earned' = [earned EXCEPT ![loop_pop_idx + 1] =
                            [n |-> @.n + 1, head |-> policy_nets[loop_pop_idx + 1],
                             fitness |-> n * reward]]
    /\ envs' = [envs EXCEPT !.env = EnvStep(EnvReset(@), TRUE)]
    /\ loop_pop_idx' = loop_pop_idx + 1
    /\ pc' = IF loop_pop_idx + 1 = config.pop_size THEN UpdateOrder[1] ELSE "episodes"
    /\ UNCHANGED <<config, modelVars, apiVars, testVars, run_idx, gen_idx, last_log,
                   stop_fit, test_fit, new_pop, evo, logger, raised, installed, staged,
                   met, exit_reason, ids, steps, eval_heads>>

\* what no statement of _update_evo_ac changes
UpdateFrame ==
    UNCHANGED <<config, apiVars, storageVars, testVars, run_idx, gen_idx, loop_pop_idx,
                timesteps, last_log, stop_fit, test_fit, logger, installed, met,
                exit_reason, objVars, earned, eval_heads>>

\* runner.py 107: self.model.opt.zero_grad()
UpdZeroGrad ==
    /\ pc = "zero_grad"
    /\ opt_grads' = zero_grad(opt_grads)
    /\ policy_grads' = zero_grad_heads(policy_grads)
    /\ steps' = Append(steps, "zero_grad")
    /\ pc' = Following("zero_grad")
    /\ UNCHANGED <<policy_nets, shared_net, value_net, evo, new_pop, staged, raised>>
    /\ UpdateFrame

\* runner.py 108: loss, ... = self.storage.get_loss(), over the trajectories
\* of every individual
UpdGetLoss ==
    /\ pc = "get_loss"
    /\ steps' = Append(steps, "get_loss")
    /\ pc' = Following("get_loss")
    /\ UNCHANGED <<modelVars, evo, new_pop, staged, raised>>
    /\ UpdateFrame

\* runner.py 109: loss.backward(), through the head of every individual,
\* the trunk and the value net
UpdBackward ==
    /\ pc = "backward"
    /\ policy_grads' = BackwardHeads(policy_nets, policy_grads, 1..config.pop_size, 1)
    /\ opt_grads' = BackwardTrunk(opt_grads, 1)
    /\ steps' = Append(steps, "backward")
    /\ pc' = Following("backward")
    /\ UNCHANGED <<policy_nets, shared_net, value_net, evo, new_pop, staged, raised>>
    /\ UpdateFrame

\* runner.py 110: self.evo.set_grads(self.model.extract_grads())
UpdSetGrads ==
    /\ pc = "set_grads"
    /\ LET g == extract_grads(policy_nets, policy_grads)
       IN  IF g.err # "none"
           THEN /\ raised' = g.err
                /\ steps' = Append(steps, "extract_grads")
                /\ pc' = "failed"
                /\ UNCHANGED evo
           ELSE /\ evo' = [evo EXCEPT !.grads = g.val, !.grads_gen = gen_idx]
                /\ steps' = steps \o <<"extract_grads", "set_grads">>
                /\ pc' = Following("set_grads")
                /\ raised' = raised
    /\ UNCHANGED <<modelVars, new_pop, staged>>
    /\ UpdateFrame

\* runner.py 112: self.model.opt.step()
UpdOptStep ==
    /\ pc = "opt_step"
    /\ shared_net' = opt_step(shared_net, opt_grads, opt_grads.shared)
    /\ value_net' = opt_step(value_net, opt_grads, opt_grads.value)
    /\ policy_nets' = opt_step_heads(policy_nets, policy_grads)
    /\ steps' = Append(steps, "opt_step")
    /\ pc' = Following("opt_step")
    /\ UNCHANGED <<policy_grads, opt_grads, evo, new_pop, staged, raised>>
    /\ UpdateFrame

\* runner.py 114: self.evo.set_fitnesses(self.storage.fitnesses)
UpdSetFitnesses ==
    /\ pc = "set_fitnesses"
    /\ evo' = [evo EXCEPT !.fitnesses = fitnesses, !.fitnesses_gen = gen_idx]
    /\ steps' = Append(steps, "set_fitnesses")
    /\ pc' = Following("set_fitnesses")
    /\ UNCHANGED <<modelVars, new_pop, staged, raised>>
    /\ UpdateFrame

\* evo.create_new_pop(): a bundle sized like the seed; tensors of its own,
\* or the bundle set_params handed over, returned as it is
create_new_pop(e, policy, P) ==
    {SeedBundle(policy, [i \in 1..P |-> 1]), e.params}

\* runner.py 116-117: self.new_pop = self.evo.create_new_pop()
UpdCreateNewPop ==
    /\ pc = "create_new_pop"
    /\ new_pop' \in create_new_pop(evo, config.policy, config.pop_size)
    /\ staged' = gen_idx
    /\ steps' = Append(steps, "create_new_pop")
    /\ pc' = Following("create_new_pop")
    /\ UNCHANGED <<modelVars, evo, raised>>
    /\ UpdateFrame

\* mutant of LogDue: an interval that has just elapsed is not yet due
LogDue_strict(ts, last, cfg) ==
    ts - last > cfg.log_interval \/ ts > cfg.timesteps

\* mutant of LogDue: the budget does not force an evaluation
LogDue_noBudget(ts, last, cfg) ==
    ts - last >= cfg.log_interval

\* runner.py 53: is this generation evaluated
LogDue(ts, last, cfg) ==
    ts - last >= cfg.log_interval \/ ts > cfg.timesteps

\* mutant of CheckLog: the new population is installed before the evaluation
CheckLog_InsertFirst ==
    /\ pc = "check"
    /\ policy_nets' = insert_params(policy_nets, policy_grads, new_pop).nets
    /\ installed' = staged
    /\ pc' = IF LogDue(timesteps, last_log, config) THEN "eval" ELSE "insert"
    /\ UNCHANGED <<config, policy_grads, shared_net, value_net, opt_grads, apiVars,
                   storageVars, testVars, run_idx, gen_idx, loop_pop_idx, timesteps,
                   last_log, stop_fit, test_fit, new_pop, evo, logger, raised, staged,
                   met, exit_reason, objVars, histVars>>

\* runner.py 53: the evaluation is entered, or skipped
CheckLog ==
    /\ pc = "check"
    /\ pc' = IF LogDue(timesteps, last_log, config) THEN "eval" ELSE "insert"
    /\ UNCHANGED <<config, modelVars, apiVars, storageVars, testVars, run_idx, gen_idx,
                   loop_pop_idx, timesteps, last_log, stop_fit, test_fit, new_pop, evo,
                   logger, raised, installed, staged, met, exit_reason, objVars,
                   histVars>>

\* runner.py 54 and 136-157: test_fit = self._test_algorithm().  The
\* evaluation is taken as one step here (SpecTest has it step by step): it
\* raises what _get_test_action raises at the first step of the first
\* episode, or plays its episodes to the end and returns a mean.
Evaluate ==
    /\ pc = "eval"
    /\ LET outs == _get_test_action(config.test_strat, fitnesses, policy_nets,
                                    shared_net, value_net, 1, config.pop_size,
                                    NumActions)
       IN  IF \E o \in outs : o.err # "none"
           THEN /\ raised' = (CHOOSE o \in outs : o.err # "none").err
                /\ pc' = "failed"
                /\ envs' = [envs EXCEPT ![EvalEnv] = EnvReset(@)]
                /\ UNCHANGED <<test_fit, met>>
           ELSE /\ \E tf \in TestFitVals :
                      /\ test_fit' = <<tf>>
                      /\ met' = IF stop_fit # << >> /\ tf >= stop_fit[1]
                                THEN met + 1 ELSE met
                /\ envs' = [envs EXCEPT ![EvalEnv] =
                                [episodes |-> @.episodes + TestEpisodes, t |-> 0]]
                /\ pc' = "log"
                /\ raised' = raised
    /\ eval_heads' = policy_nets
    /\ UNCHANGED <<config, modelVars, apiVars, storageVars, testVars, run_idx, gen_idx,
                   loop_pop_idx, timesteps, last_log, stop_fit, new_pop, evo, logger,
                   installed, staged, exit_reason, ids, steps, earned>>

\* mutant of StopMet: the threshold itself does not stop the run
StopMet_strict(fit, stop) == fit > stop

\* runner.py 64: if test_fit >= self.stop_fit
StopMet(fit, stop) == fit >= stop

\* runner.py 56-65: save_fitnesses, print_data every print_interval
\* generations, last_log, then the stop test; self.stop_fit raises
\* AttributeError when __init__ never assigned it
Log ==
    /\ pc = "log"
    /\ logger' = [logger EXCEPT
                    !.saves = @ + 1,
                    !.prints = IF gen_idx % config.print_interval = 0 THEN @ + 1 ELSE @]
    /\ last_log' = timesteps
    /\ IF stop_fit = << >>
       THEN /\ raised' = "AttributeError"
            /\ pc' = "failed"
            /\ UNCHANGED exit_reason
       ELSE /\ raised' = raised
            /\ IF StopMet(test_fit[1], stop_fit[1])
               THEN /\ pc' = "end_run"
                    /\ exit_reason' = "stop_fit"
               ELSE /\ pc' = "insert"
                    /\ UNCHANGED exit_reason
    /\ UNCHANGED <<config, modelVars, apiVars, storageVars, testVars, run_idx, gen_idx,
                   loop_pop_idx, timesteps, stop_fit, test_fit, new_pop, evo, installed,
                   staged, met, objVars, histVars>>

\* runner.py 67-70: insert_params(self.new_pop), then the budget test
Insert ==
    /\ pc = "insert"
    /\ LET r == insert_params(policy_nets, policy_grads, new_pop)
       IN  /\ policy_nets' = r.nets
           /\ ids' = [ids EXCEPT !.heads = insert_params_ids(@)]
           /\ IF r.err # "none"
              THEN /\ raised' = r.err
                   /\ pc' = "failed"
                   /\ UNCHANGED <<installed, gen_idx, exit_reason>>
              ELSE /\ raised' = raised
                   /\ installed' = staged
                   /\ IF timesteps > config.timesteps
                      THEN /\ pc' = "end_run"
                           /\ exit_reason' = "budget"
                           /\ UNCHANGED gen_idx
                      ELSE /\ pc' = "gen_start"
                           /\ gen_idx' = gen_idx + 1
                           /\ UNCHANGED exit_reason
    /\ UNCHANGED <<config, policy_grads, shared_net, value_net, opt_grads, apiVars,
                   storageVars, testVars, run_idx, loop_pop_idx, timesteps, last_log,
                   stop_fit, test_fit, new_pop, evo, logger, staged, met, envs,
                   histVars>>

\* mutant of EndRun: the run is left without telling the logger
EndRun_silent ==
    /\ pc = "end_run"
    /\ run_idx' = run_idx + 1
    /\ pc' = "run_start"
    /\ UNCHANGED <<config, modelVars, apiVars, storageVars, testVars, gen_idx,
                   loop_pop_idx, timesteps, last_log, stop_fit, test_fit, new_pop, evo,
                   logger, raised, installed, staged, met, exit_reason, objVars,
                   histVars>>

\* runner.py 72: logger.end_run(), then the next run_idx
EndRun ==
    /\ pc = "end_run"
    /\ logger' = [logger EXCEPT !.end_runs = @ + 1]
    /\ run_idx' = run_idx + 1
    /\ pc' = "run_start"
    /\ UNCHANGED <<config, modelVars, apiVars, storageVars, testVars, gen_idx,
                   loop_pop_idx, timesteps, last_log, stop_fit, test_fit, new_pop, evo,
                   raised, installed, staged, met, exit_reason, objVars, histVars>>

Next ==
    \/ StartRun
    \/ EndExperiment
    \/ StartGeneration
    \/ CeilingReached
    \/ RunEpisode
    \/ UpdZeroGrad
    \/ UpdGetLoss
    \/ UpdBackward
    \/ UpdSetGrads
    \/ UpdOptStep
    \/ UpdSetFitnesses
    \/ UpdCreateNewPop
    \/ CheckLog
    \/ Evaluate
    \/ Log
    \/ Insert
    \/ EndRun

Spec == Init /\ [][Next]_vars

\* =================================================================== claims
\* ---- C1 ----------------------------------------------------------------
\* C1 as stated: the generation loop of a run ends at the first evaluation
\* whose mean test fitness is >= stop_fit, and is never left before such an
\* evaluation has occurred.
C1_OnlyStopFitEnds ==
    /\ met <= 1
    /\ (met = 1) => pc \in {"log", "end_run", "run_start", "done"}
    /\ (pc = "end_run") => met = 1

\* C1 as amended: the loop ends at the first evaluation whose mean test
\* fitness is >= stop_fit (no later generation, no insert_params follows);
\* it is left without such an evaluation only when the timestep counter
\* exceeds the budget, when the iteration ceiling is exhausted, or when an
\* exception ends train().
C1_StopBudgetOrCeiling ==
    /\ met <= 1
    /\ (met = 1) => pc \in {"log", "end_run", "run_start", "done"}
    /\ (pc = "end_run") =>
          \/ /\ exit_reason = "stop_fit"
             /\ met = 1
             /\ test_fit[1] >= stop_fit[1]
          \/ /\ exit_reason = "budget"
             /\ met = 0
             /\ timesteps > config.timesteps
          \/ /\ exit_reason = "ceiling"
             /\ met = 0
             /\ gen_idx = GenCeiling
    /\ (pc = "failed") => (met = 0 /\ raised # "none")

\* a run left on the threshold in a generation after the first: an earlier
\* evaluation stayed below it
C1_Witness ==
    /\ pc = "end_run"
    /\ exit_reason = "stop_fit"
    /\ gen_idx >= 1
    /\ logger.saves >= 2
    /\ met = 1

\* ---- C2 ----------------------------------------------------------------
\* C2: while generation g is evaluated and logged, the heads are not the
\* ones create_new_pop produced in generation g: that bundle is staged in
\* self.new_pop and the heads hold an earlier generation's bundle or the
\* initial values.
C2_InsertAfterEvaluation ==
    (pc \in {"eval", "log"}) => (staged = gen_idx /\ installed < gen_idx)

\* an evaluation is being logged in a generation that follows an install
C2_Witness ==
    /\ pc = "log"
    /\ gen_idx >= 1
    /\ installed = gen_idx - 1
    /\ staged = gen_idx

\* ---- C3 ----------------------------------------------------------------
\* C3: insert_params(extract_params()) is a no-op on the network: it raises
\* nothing, every head parameter of every individual holds the value it held
\* before the call, and the trunk and value parameters are unchanged.
C3_RoundTripNoOp ==
    [][ApiRoundTrip =>
          /\ ret'.err = "none"
          /\ policy_nets' = policy_nets
          /\ shared_net' = shared_net
          /\ value_net' = value_net]_vars

\* a round trip has run on a population whose heads differ from one another
C3_Witness ==
    /\ lastOp = "round_trip"
    /\ config.pop_size >= 2
    /\ policy_nets[1] # policy_nets[2]

\* ---- C4 ----------------------------------------------------------------
\* C4: after any sequence of operations, extract_params() returns a bundle
\* with one entry per individual, in population order, and each entry is
\* indexed [layer][parameter]: it has one element per layer of the head
\* architecture.
C4_NestedLayout ==
    (lastOp = "extract_params") =>
        /\ ret.err = "none"
        /\ Len(ret.val) = config.pop_size
        /\ \A i \in 1..Len(ret.val) : Len(ret.val[i]) = Len(config.policy)

\* what the code returns instead: each entry is one flat list of the
\* individual's parameters over all its layers, in layer order, each of the
\* shape the architecture gives it
FlatShapes(policy) ==
    Flatten([l \in 1..Len(policy) |->
                [q \in 1..Len(ParamShapes(policy[l])) |-> ParamShapes(policy[l])[q][1]]])

C4_FlatLayout ==
    (lastOp = "extract_params") =>
        /\ ret.err = "none"
        /\ Len(ret.val) = config.pop_size
        /\ \A i \in 1..Len(ret.val) :
              /\ Len(ret.val[i]) = Len(FlatShapes(config.policy))
              /\ \A k \in 1..Len(ret.val[i]) :
                    /\ ret.val[i][k].ind = i
                    /\ Deref(ret.val[i][k], policy_nets, policy_grads).shape
                          = FlatShapes(config.policy)[k]

\* ---- C5 ----------------------------------------------------------------
\* C5: extract_grads() raises when the most recent backward pass left some
\* individual's head untouched; when it returns, every individual was in
\* that pass and its entry is non-empty with the layout of its
\* extract_params() entry.
C5_GradContract ==
    (lastOp = "extract_grads") =>
        /\ (lastTouched # 1..config.pop_size) => ret.err # "none"
        /\ (ret.err = "none") =>
              \A i \in lastTouched :
                  /\ Len(ret.val[i]) > 0
                  /\ Len(ret.val[i]) = Len(extract_params(policy_nets)[i])

\* ---- C6 ----------------------------------------------------------------
\* C6: insert_params(bundle) raises whenever the bundle does not have one
\* entry per individual, or some individual's entry does not have exactly
\* as many parameter entries as extract_params() gives it.
C6_InsertRejectsMismatch ==
    (lastOp = "insert_params" /\ ret.err = "none") =>
        /\ Len(arg) = config.pop_size
        /\ \A i \in 1..config.pop_size :
              Len(arg[i]) = Len(extract_params(policy_nets)[i])

\* ---- C7 ----------------------------------------------------------------
\* C7: under weightedvote the action every individual contributes is the
\* most likely action of its own policy distribution for the observation
\* (a greedy choice, the same on every call).
C7_GreedyProposals ==
    (config.test_strat = "weightedvote" /\ actions # << >>) =>
        \A i \in 1..Len(actions) :
            actions[i] = MostLikely(policy_nets, shared_net, value_net, obs_arg, i - 1)

\* ---- C8 ----------------------------------------------------------------
\* the total vote of action a: the sum of the fitnesses of the individuals
\* that proposed it
RECURSIVE SumOver(_, _)
SumOver(S, f) ==
    IF S = {} THEN 0
    ELSE LET x == CHOOSE y \in S : TRUE IN f[x] + SumOver(S \ {x}, f)

TotalVote(a) == SumOver({i \in 1..Len(actions) : actions[i] = a}, fitnesses)

\* C8: under weightedvote the returned action has the highest total vote,
\* and every action with a lower index has a strictly lower total; with
\* fitnesses [1, 2, 5] and proposals [0, 1, 1] the totals are 1 and 7 and
\* the action is 1.
C8_WeightedVote ==
    (config.test_strat = "weightedvote" /\ actions # << >>) =>
        /\ action \in 0..(NumActions - 1)
        /\ \A a \in 0..(NumActions - 1) : TotalVote(a) <= TotalVote(action)
        /\ \A a \in 0..(action - 1) : TotalVote(a) < TotalVote(action)
        /\ (fitnesses = <<1, 2, 5>> /\ actions = <<0, 1, 1>>) =>
              (TotalVote(0) = 1 /\ TotalVote(1) = 7 /\ action = 1)

\* scenario A has been voted on
C8_Witness ==
    /\ config.test_strat = "weightedvote"
    /\ fitnesses = <<1, 2, 5>>
    /\ actions = <<0, 1, 1>>
    /\ action = 1

\* ---- C9 ----------------------------------------------------------------
\* C9: under best every step of the evaluation makes one get_action call,
\* on an individual whose fitness is the highest in storage.fitnesses, the
\* same one at every step of every episode (index 1 for [3, 9, 1]); no other
\* individual is consulted.
C9_BestOnly ==
    (config.test_strat = "best" /\ queried # << >>) =>
        /\ Len(queried) = 1
        /\ \A i \in 1..Len(fitnesses) : fitnesses[i] <= fitnesses[queried[1] + 1]
        /\ consulted = {queried[1]}
        /\ (fitnesses = <<3, 9, 1>>) => (queried = <<1>>)

\* scenario B: a whole evaluation has run on fitnesses [3, 9, 1]
C9_Witness ==
    /\ config.test_strat = "best"
    /\ fitnesses = <<3, 9, 1>>
    /\ tpc = "done"
    /\ test_ep = TestEpisodes
    /\ consulted = {1}

\* ---- C10 ---------------------------------------------------------------
\* C10: with a test_strat that is none of best, softmax, weightedvote the
\* program fails at startup: when it fails, no training episode has run, no
\* gradient update has been made and no new population has been produced.
C10_FailsAtStartup ==
    (config.test_strat \notin KnownStrats /\ pc = "failed") =>
        /\ timesteps = 0
        /\ ~opt_grads.set
        /\ staged = -1

\* ---- C11 ---------------------------------------------------------------
\* C11: within a run the head parameter values change only in insert_params
\* (the install step) and the trunk and value parameter values change only
\* in opt.step() of the combined update; opt.step() leaves every head
\* parameter unchanged and insert_params leaves the trunk and the value net
\* unchanged.  (A new run constructs a new model.)
C11_HeadsAndTrunkWriters ==
    [][/\ (policy_nets' # policy_nets) => pc \in {"insert", "run_start"}
       /\ (shared_net' # shared_net \/ value_net' # value_net) =>
              pc \in {"opt_step", "run_start"}
       /\ (pc = "opt_step") => policy_nets' = policy_nets
       /\ (pc = "insert") => (shared_net' = shared_net /\ value_net' = value_net)]_vars

\* a generation has ended in which opt.step() moved the trunk and the
\* install replaced the first head by a bundle of the collaborator's own
C11_Witness ==
    /\ pc = "gen_start"
    /\ gen_idx = 1
    /\ installed = 0
    /\ shared_net # 1
    /\ policy_nets[1] = _add_layers(config.policy, 1)

\* ---- C12 ---------------------------------------------------------------
\* C12: no step of an evaluation changes training state: storage.fitnesses,
\* the timestep counter, last_log, the training environment, every head,
\* trunk and value parameter and every gradient stay as they were; only the
\* test environment is reset and stepped, and an evaluation that returns has
\* played exactly the fixed number of episodes on it, each to its end.
C12_EvaluationFrame ==
    /\ [](/\ envs.test_env.episodes <= TestEpisodes
          /\ (tpc = "done") =>
                /\ test_ep = TestEpisodes
                /\ Len(test_log) = TestEpisodes
                /\ envs.test_env = [episodes |-> TestEpisodes, t |-> 0])
    /\ [][/\ fitnesses' = fitnesses
          /\ timesteps' = timesteps
          /\ last_log' = last_log
          /\ envs'.env = envs.env
          /\ policy_nets' = policy_nets
          /\ shared_net' = shared_net
          /\ value_net' = value_net
          /\ policy_grads' = policy_grads
          /\ opt_grads' = opt_grads]_vars

\* a whole evaluation of a population of two has returned its mean
C12_Witness ==
    /\ tpc = "done"
    /\ config.pop_size = 2
    /\ config.test_strat = "softmax"
    /\ test_return = <<SumSeq(test_log), TestEpisodes>>
    /\ envs.test_env.episodes = TestEpisodes
    /\ envs.env.episodes = 0

\* ---- C13 ---------------------------------------------------------------
\* C13: a bundle returned by extract_params() is a copy of the head
\* parameter values at the time of the call: whatever is called next
\* (insert_params included), every entry of the bundle still holds the value
\* it held when the bundle was returned.
C13_BundleIsCopy ==
    [][(lastOp = "extract_params" /\ ret.err = "none") =>
          \A i \in 1..Len(ret.val) : \A k \in 1..Len(ret.val[i]) :
              Deref(ret.val[i][k], policy_nets', policy_grads')
                  = Deref(ret.val[i][k], policy_nets, policy_grads)]_vars

\* ---- C14 ---------------------------------------------------------------
\* the parameter objects of the model as it stands
LiveIds ==
    {ids.shared, ids.value}
      \cup UNION {UNION {{ids.heads[i][l][q] : q \in 1..Len(ids.heads[i][l])} :
                         l \in 1..Len(ids.heads[i])} :
                  i \in 1..Len(ids.heads)}

\* C14: after any sequence of calls, insert_params among them, every head,
\* trunk and value parameter is the object it was at construction (no call
\* replaces a parameter object, values only are overwritten), and every
\* parameter the optimizer was constructed with is still a parameter of the
\* model.
C14_IdentityPreserved ==
    /\ [](ids.opt # {} /\ ids.opt \subseteq LiveIds)
    /\ [][ids' = ids]_vars

\* insert_params has overwritten the first head with a tensor of the
\* caller's, after an earlier call
C14_Witness ==
    /\ lastOp = "insert_params"
    /\ ret.err = "none"
    /\ calls >= 2
    /\ arg[1][1].kind = "val"
    /\ policy_nets[1][1][1] = arg[1][1].t
    /\ policy_nets[1] # _add_layers(config.policy, 0)

\* ---- C15 ---------------------------------------------------------------
\* what one backward pass of this generation leaves in head gradients that
\* were cleared before it
ThisGenerationGrads ==
    BackwardHeads(policy_nets, NoGrads(policy_nets), 1..config.pop_size, 1)

\* C15: the gradient bundle handed to evo.set_grads holds, for every
\* individual, only the gradient of this generation's backward pass: nothing
\* of an earlier generation's pass is carried over or accumulated into it.
C15_FreshGradients ==
    (pc = "opt_step" /\ evo.grads_gen = gen_idx) =>
        \A i \in 1..Len(evo.grads) : \A k \in 1..Len(evo.grads[i]) :
            Deref(evo.grads[i][k], policy_nets, policy_grads)
                = Flatten(ThisGenerationGrads[i])[k]

\* ---- C16 ---------------------------------------------------------------
\* the calls of one combined update, in the order the claim gives them
UpdateCalls ==
    <<"zero_grad", "get_loss", "backward", "extract_grads", "set_grads", "opt_step",
      "set_fitnesses", "create_new_pop">>

IsPrefix(s, t) == Len(s) <= Len(t) /\ SubSeq(t, 1, Len(s)) = s

\* C16: the calls a combined update has made so far are always an initial
\* part of zero_grad, get_loss, backward, extract_grads, set_grads, opt.step,
\* set_fitnesses, create_new_pop (so gradients are extracted after the
\* backward pass and before the optimizer step); create_new_pop is called
\* once in a generation, when set_grads and set_fitnesses have both been
\* called in that generation, set_fitnesses with its fitnesses; and no call
\* is made before the generation's episodes are over.
C16_UpdateOrder ==
    /\ IsPrefix(steps, UpdateCalls)
    /\ (pc = "episodes") => steps = << >>
    /\ (pc = "create_new_pop") =>
          /\ steps = SubSeq(UpdateCalls, 1, Len(UpdateCalls) - 1)
          /\ evo.grads_gen = gen_idx
          /\ evo.fitnesses_gen = gen_idx
          /\ evo.fitnesses = fitnesses
    /\ (pc \in {"check", "eval", "log", "insert"}) =>
          /\ steps = UpdateCalls
          /\ staged = gen_idx
          /\ evo.grads_gen = gen_idx
          /\ evo.fitnesses_gen = gen_idx

\* the combined update of the second generation of a run is complete
C16_Witness ==
    /\ pc = "check"
    /\ gen_idx = 1
    /\ steps = UpdateCalls
    /\ evo.grads_gen = 1
    /\ evo.fitnesses_gen = 1
    /\ staged = 1

\* ---- C17 ---------------------------------------------------------------
\* C17 as stated: a generation is evaluated if and only if the timesteps
\* since the last logged evaluation exceed the log interval or the total
\* timesteps exceed the budget; an evaluation sets last_log to the current
\* timestep count; without an evaluation last_log and the logger are
\* untouched.
C17_EvaluatedIffExceeds ==
    [][/\ (pc = "check") =>
              ((pc' = "eval") <=> (\/ timesteps - last_log > config.log_interval
                                   \/ timesteps > config.timesteps))
       /\ (pc' = "log" /\ pc # "log") => pc = "eval"
       /\ (pc = "log") => last_log' = timesteps
       /\ (last_log' # last_log) => pc \in {"log", "run_start"}
       /\ (logger' # logger) => pc \in {"log", "end_run", "run_start"}]_vars

\* C17 as amended: a generation is evaluated if and only if the timesteps
\* since the last logged evaluation are at least the log interval (equal to
\* it included) or the total timesteps exceed the budget; the rest as stated.
C17_EvaluatedIffDue ==
    [][/\ (pc = "check") =>
              ((pc' = "eval") <=> (\/ timesteps - last_log >= config.log_interval
                                   \/ timesteps > config.timesteps))
       /\ (pc' = "log" /\ pc # "log") => pc = "eval"
       /\ (pc = "log") => last_log' = timesteps
       /\ (last_log' # last_log) => pc \in {"log", "run_start"}
       /\ (logger' # logger) => pc \in {"log", "end_run", "run_start"}]_vars

\* a generation is evaluated with exactly log_interval timesteps since the
\* last logged evaluation and the budget not exceeded
C17_Witness ==
    /\ pc = "eval"
    /\ gen_idx >= 1
    /\ timesteps - last_log = config.log_interval
    /\ timesteps <= config.timesteps

\* ---- C18 ---------------------------------------------------------------
\* C18: no generation begins, and no generation's first episode starts,
\* with the timestep counter above the budget; a run left on the budget has
\* its counter above it; and whenever the loop is left with the counter
\* above the budget, that last generation was evaluated and logged
\* (last_log is the current count) before the loop was left.
C18_TimestepBudget ==
    /\ (pc = "gen_start") => timesteps <= config.timesteps
    /\ (pc = "episodes" /\ loop_pop_idx = 0) => timesteps <= config.timesteps
    /\ (pc = "insert" /\ timesteps > config.timesteps) => last_log = timesteps
    /\ (pc = "end_run" /\ exit_reason = "budget") => timesteps > config.timesteps
    /\ (pc = "end_run" /\ timesteps > config.timesteps) =>
          /\ exit_reason \in {"budget", "stop_fit"}
          /\ last_log = timesteps
          /\ logger.saves >= 1
          /\ test_fit # << >>

\* a run is left on the budget in a generation after the first
C18_Witness ==
    /\ pc = "end_run"
    /\ exit_reason = "budget"
    /\ gen_idx >= 1
    /\ timesteps > config.timesteps
    /\ last_log = timesteps
    /\ logger.saves >= 2

\* ---- C19 ---------------------------------------------------------------
\* the configuration names an environment with a stop threshold and a test
\* strategy that _get_test_action knows
ValidConfig ==
    /\ config.env \in {"CartPole-v1", "LunarLander-v2"}
    /\ config.test_strat \in KnownStrats

\* An upper bound on the statements train() has still to run, an episode
\* counted as one: a generation is its start, pop_size episodes, the seven
\* statements of the update, the log test, the evaluation, the log and the
\* install; a run is its start, at most GenCeiling generations, the
\* exhausted range and end_run; end_experiment is the last.
GenSteps == config.pop_size + 12

RunSteps == GenCeiling * GenSteps + 3

StepsIntoGeneration ==
    CASE pc = "gen_start" -> 0
      [] pc = "episodes" -> 1 + loop_pop_idx
      [] pc = "zero_grad" -> 1 + config.pop_size
      [] pc = "get_loss" -> 2 + config.pop_size
      [] pc = "backward" -> 3 + config.pop_size
      [] pc = "set_grads" -> 4 + config.pop_size
      [] pc = "opt_step" -> 5 + config.pop_size
      [] pc = "set_fitnesses" -> 6 + config.pop_size
      [] pc = "create_new_pop" -> 7 + config.pop_size
      [] pc = "check" -> 8 + config.pop_size
      [] pc = "eval" -> 9 + config.pop_size
      [] pc = "log" -> 10 + config.pop_size
      [] OTHER -> 11 + config.pop_size

StepsLeft ==
    CASE pc \in {"done", "failed"} -> 0
      [] pc = "run_start" -> (config.num_runs - run_idx) * RunSteps + 1
      [] pc = "end_run" -> (config.num_runs - run_idx - 1) * RunSteps + 2
      [] OTHER -> (config.num_runs - run_idx - 1) * RunSteps + 3
                    + (GenCeiling - gen_idx) * GenSteps - StepsIntoGeneration

\* C19: train() terminates (every statement lowers a bound on the
\* statements left, which is never negative, and train stops only when it
\* has returned or raised; it raises only on a configuration that names no
\* stop threshold or no known test strategy); a run has at most the
\* ceiling's number of generations; logger.end_run has been called once for
\* every run whose generation loop was left (on the stop fitness, the budget
\* or the ceiling) and for no other; every run starts with a newly
\* constructed model (new parameter objects, no gradients), zeroed storage,
\* a collaborator seeded with that model's heads and nothing else, and
\* timesteps 0; logger.end_experiment is called once, after the last run.
C19_Terminates ==
    /\ [](/\ StepsLeft >= 0
          /\ (StepsLeft = 0) <=> (pc \in {"done", "failed"})
          /\ (pc = "run_start") => run_idx <= config.num_runs
          /\ (pc = "gen_start") => gen_idx <= GenCeiling
          /\ (pc = "episodes") => loop_pop_idx < config.pop_size
          /\ (pc \in {"episodes", "check", "eval", "log", "insert"}) =>
                gen_idx < GenCeiling
          /\ logger.end_runs = run_idx
          /\ (pc = "end_run") => exit_reason \in {"stop_fit", "budget", "ceiling"}
          /\ logger.end_experiments = (IF pc = "done" THEN 1 ELSE 0)
          /\ (pc = "done") => run_idx = config.num_runs
          /\ (pc = "failed") => ~ValidConfig)
    /\ [][/\ StepsLeft' < StepsLeft
          /\ (pc = "run_start" /\ pc' = "gen_start") =>
                /\ timesteps' = 0
                /\ gen_idx' = 0
                /\ fitnesses' = [i \in 1..config.pop_size |-> 0]
                /\ Len(policy_nets') = config.pop_size
                /\ policy_grads' = NoGrads(policy_nets')
                /\ opt_grads' = NoOptGrads
                /\ shared_net' = 1
                /\ value_net' = 1
                /\ ids'.opt \cap ids.opt = {}
                /\ evo' = [NoEvo EXCEPT !.params = extract_params(policy_nets')]
                /\ logger'.end_runs = run_idx]_vars

\* an experiment of two runs has returned, the first of them left on the
\* iteration ceiling or the budget with gradients and an install behind it
C19_Witness ==
    /\ pc = "done"
    /\ config.num_runs = 2
    /\ run_idx = 2
    /\ logger.end_runs = 2
    /\ logger.end_experiments = 1
    /\ ids.shared > 1000

\* ---- C20 ---------------------------------------------------------------
\* C20: while a generation's combined update, evaluation and logging run,
\* every individual has played exactly one training episode since the
\* storage was reset, the fitness stored at its index is the one that
\* episode earned, and the head that played it is the head now at that
\* index (installed at the end of the previous generation, or initial in
\* generation 0).  A run left on the stop fitness has not installed the
\* staged population: its heads are the ones that were evaluated.
C20_FitnessMatchesHeads ==
    /\ (pc \in {"zero_grad", "get_loss", "backward", "set_grads", "opt_step",
                "set_fitnesses", "create_new_pop", "check", "eval", "log"}) =>
          /\ Len(fitnesses) = config.pop_size
          /\ installed = gen_idx - 1
          /\ \A i \in 1..config.pop_size :
                /\ earned[i].n = 1
                /\ earned[i].fitness = fitnesses[i]
                /\ earned[i].head = policy_nets[i]
    /\ (pc = "end_run" /\ exit_reason = "stop_fit") =>
          /\ staged = gen_idx
          /\ installed = gen_idx - 1
          /\ policy_nets = eval_heads
          /\ \A i \in 1..config.pop_size :
                /\ earned[i].fitness = fitnesses[i]
                /\ earned[i].head = policy_nets[i]

\* a run of two individuals is left on the stop fitness in its second
\* generation, the staged population differing from the heads
C20_Witness ==
    /\ pc = "end_run"
    /\ exit_reason = "stop_fit"
    /\ config.pop_size = 2
    /\ gen_idx = 1
    /\ installed = 0
    /\ staged = 1
    /\ policy_nets = eval_heads
    /\ fitnesses[1] # fitnesses[2]
    /\ new_pop[1][2].kind = "val"
    /\ new_pop[1][2].t # policy_nets[1][1][2]

====
